---- MODULE Spec2Model ----
(***************************************************************************)
(* Model of the retrieval layer of Reasoning-GPT: retrieval/store.py       *)
(* (class VectorStore over faiss.IndexFlatIP), retrieval/embed.py (the     *)
(* embedding client) and the request handlers of backend/app.py.           *)
(*                                                                         *)
(* Vectors are tuples of small integers; every value used is exactly       *)
(* representable in float32, so astype("float32") keeps the values and     *)
(* only the shape of the numpy array decides what the calls do.            *)
(* Exceptions are modelled by their Python class name in the variable err. *)
(***************************************************************************)
EXTENDS Integers, Sequences, FiniteSets, TLC

\* ---------------------------------------------------------------- bounds
MaxDim == 4        \* the largest store dimension
MaxEntries == 3    \* at most this many vectors / payloads are ever stored
MaxBatch == 1      \* well-formed embeddings lists of an add call have at most this length

\* The dimensions a store is created with: the smallest and the largest.
Dims == {1, MaxDim}
\* top_k of a search: negative, zero, and up to more than the store can hold.
TopKs == (0 - 1)..(MaxEntries + 1)

\* The payload dicts of the data set, in the order they are submitted.
PayloadIds == <<"a", "b", "c", "d", "e", "f", "g", "h">>
Payload(i) == [id |-> PayloadIds[i]]

\* Vectors of length d offered to add and search: e1, e2 and e1+e2 padded
\* with zeros (for d = 1: [0] and [1]).
VecPool(d) ==
    { v \in [1..d -> {0, 1}] :
        /\ \A i \in 3..d : v[i] = 0
        /\ (d >= 2 => \E i \in 1..d : v[i] = 1) }

\* A vector whose length is not the store's dimension.
WrongDimVec(d) == [i \in 1..(d + 1) |-> 1]

\* Queries of a search: e1, e1+e2 (for d = 1: [1]) and one of the wrong length.
QueryInputs(d) ==
    { v \in VecPool(d) : v[1] = 1 } \cup {WrongDimVec(d)}

\* Embeddings lists add must reject: one vector of the wrong length, and
\* rows of different lengths.
BadBatches(d) ==
    { <<WrongDimVec(d)>>, <<[i \in 1..d |-> 1], WrongDimVec(d)>> }

RECURSIVE SeqsUpTo(_, _)
SeqsUpTo(S, n) ==
    IF n = 0 THEN {<<>>}
    ELSE LET shorter == SeqsUpTo(S, n - 1)
         IN shorter \cup { Append(s, x) : s \in { t \in shorter : Len(t) = n - 1 }, x \in S }

\* ----------------------------------------------------------------- state
VARIABLES
    dim,        \* self.index.d, fixed by __init__
    index,      \* the vectors held by self.index, in insertion order (ntotal = Len)
    payloads,   \* self.payloads
    op,         \* the last call made on the store and its arguments' summary
    ret,        \* the value the last call returned (<<>> when it raised or returns None)
    err,        \* the exception the last call raised, "none" when it returned
    aligned,    \* history: every add so far put its i-th vector and its i-th payload
                \* at the same position of the store, and left neither without the other
    embedCfg,   \* EMBED_API_URL and EMBED_API_KEY as read when embed.py is imported
    embedCall,  \* the last embed call: its texts and what the remote service answered
    embedSent,  \* the requests the last embed call posted, in order
    embedOut,   \* what the last embed call returned or raised
    searchers,  \* threads inside store.search: where each stands, and its local variables
    adder,      \* the thread inside store.add: where it stands, and its payloads argument
    items,      \* the server's global ITEMS
    modelCfg,   \* the server's MODEL_URL and MODEL_KEY, read at import
    loadEnv,    \* the files load_store finds: the pickle and the JSONL data set
    startup,    \* how far the import of app.py got, and what load_store did
    fnCall,     \* the last call of a helper function: its arguments and its result
    retry,      \* the retry loop of call_vision_api: its position and its history
    served      \* the last request the server answered: the calls it made and its response

storeVars == <<dim, index, payloads, op, ret, err, aligned>>
embedVars == <<embedCfg, embedCall, embedSent, embedOut>>
concVars == <<searchers, adder>>
serverVars == <<items, modelCfg, served>>
loadVars == <<loadEnv, startup>>
toolVars == <<fnCall, retry>>
vars == <<storeVars, embedVars, concVars, serverVars, loadVars, toolVars>>

NoOp(name) ==
    [name |-> name, query |-> <<>>, top_k |-> 0, nv |-> 0, np |-> 0,
     dimok |-> TRUE, oldn |-> 0, oldp |-> 0]

\* ------------------------------------------------- numpy / faiss helpers
RECURSIVE SumProducts(_, _, _)
SumProducts(x, y, i) ==
    IF i = 0 THEN 0 ELSE x[i] * y[i] + SumProducts(x, y, i - 1)

\* The score IndexFlatIP computes for one stored vector.
InnerProduct(x, y) == SumProducts(x, y, Len(x))

\* np.array(embeddings).astype("float32"): the shape of the array, or the
\* ValueError numpy raises for rows of different lengths.
NpShape(embeddings) ==
    IF embeddings = <<>> THEN <<0>>
    ELSE IF \A i \in 1..Len(embeddings) : Len(embeddings[i]) = Len(embeddings[1])
         THEN <<Len(embeddings), Len(embeddings[1])>>
         ELSE "ValueError"

\* index.add(arr): "n, d = x.shape" then "assert d == self.d".
IndexAddError(d, shape) ==
    IF shape = "ValueError" THEN "ValueError"
    ELSE IF Len(shape) # 2 THEN "ValueError"
    ELSE IF shape[2] # d THEN "AssertionError"
    ELSE "none"

\* faiss CMin<float, idx_t>::cmp2: order by value, ties by label.
Cmp2(a1, b1, a2, b2) == (a1 < b1) \/ (a1 = b1 /\ a2 < b2)

\* The root of the min-heap of <<score, label>> entries.
HeapTop(heap) ==
    CHOOSE e \in heap : \A f \in heap \ {e} : Cmp2(e[1], f[1], e[2], f[2])

\* HeapBlockResultHandler::add_result on a heap of capacity k: an empty slot
\* (neutral score, label -1) is the root while one is left; otherwise the
\* root is replaced only by a strictly larger score.
AddResult(heap, k, dis, label) ==
    IF Cardinality(heap) < k THEN heap \cup {<<dis, label>>}
    ELSE IF HeapTop(heap)[1] < dis
         THEN (heap \ {HeapTop(heap)}) \cup {<<dis, label>>}
         ELSE heap

\* exhaustive_inner_product_seq: every stored vector, in insertion order.
RECURSIVE ExhaustiveScan(_, _, _, _, _)
ExhaustiveScan(xb, q, k, j, heap) ==
    IF j > Len(xb) THEN heap
    ELSE ExhaustiveScan(xb, q, k, j + 1,
                        AddResult(heap, k, InnerProduct(q, xb[j]), j - 1))

\* Mutant of HeapReorder: the popped root is put at the front, worst first.
RECURSIVE HeapReorderWorstFirst(_)
HeapReorderWorstFirst(heap) ==
    IF heap = {} THEN <<>>
    ELSE LET t == HeapTop(heap) IN <<t>> \o HeapReorderWorstFirst(heap \ {t})

\* heap_reorder: the root is popped and put at the end, repeatedly.
RECURSIVE HeapReorder(_)
HeapReorder(heap) ==
    IF heap = {} THEN <<>>
    ELSE LET t == HeapTop(heap) IN Append(HeapReorder(heap \ {t}), t)

\* self.index.search(q, top_k) for one query row: k <<score, label>> entries,
\* best first, padded with label -1.
IndexSearch(xb, q, k) ==
    LET found == HeapReorder(ExhaustiveScan(xb, q, k, 1, {}))
    IN found \o [i \in 1..(k - Len(found)) |-> <<"neutral", 0 - 1>>]

\* Mutant of IndexSearchError: the check on k is "assert k >= 0".
IndexSearchErrorZeroAllowed(d, query, top_k) ==
    IF Len(query) # d THEN "AssertionError"
    ELSE IF ~(top_k >= 0) THEN "AssertionError"
    ELSE "none"

\* index.search's argument checks: "assert d == self.d", "assert k > 0".
IndexSearchError(d, query, top_k) ==
    IF Len(query) # d THEN "AssertionError"
    ELSE IF ~(top_k > 0) THEN "AssertionError"
    ELSE "none"

\* Mutant of CollectResults: label -1 is not skipped, and self.payloads[-1]
\* is the last payload, or an IndexError on an empty list.
RECURSIVE CollectResultsNoSkip(_, _, _)
CollectResultsNoSkip(found, pls, i) ==
    IF i > Len(found) THEN [err |-> "none", value |-> <<>>]
    ELSE LET idx == found[i][2]
             pos == IF idx = 0 - 1 THEN Len(pls) ELSE idx + 1
             rest == CollectResultsNoSkip(found, pls, i + 1)
         IN IF pos < 1 \/ pos > Len(pls) THEN [err |-> "IndexError", value |-> <<>>]
            ELSE IF rest.err # "none" THEN rest
            ELSE [err |-> "none", value |-> <<<<found[i][1], pls[pos]>>>> \o rest.value]

\* The loop of search: skip label -1, pair the score with self.payloads[idx].
RECURSIVE CollectResults(_, _, _)
CollectResults(found, pls, i) ==
    IF i > Len(found) THEN [err |-> "none", value |-> <<>>]
    ELSE LET idx == found[i][2]
             rest == CollectResults(found, pls, i + 1)
         IN IF idx = 0 - 1 THEN rest
            ELSE IF idx + 1 > Len(pls) THEN [err |-> "IndexError", value |-> <<>>]
            ELSE IF rest.err # "none" THEN rest
            ELSE [err |-> "none", value |-> <<<<found[i][1], pls[idx + 1]>>>> \o rest.value]

\* VectorStore.search as a function of the store and its arguments.
SearchOutcome(d, xb, pls, query, top_k) ==
    LET e == IndexSearchError(d, query, top_k)
    IN IF e # "none" THEN [err |-> e, value |-> <<>>]
       ELSE CollectResults(IndexSearch(xb, query, top_k), pls, 1)

\* ------------------------------------------------------- embedding client
MaxTexts == 2      \* an embed call gets 1..MaxTexts texts

\* An environment variable: not set, set to the empty string, or set.
EnvValues == {"unset", "empty", "set"}
\* Python's "not value" for such a variable.
Falsy(v) == v \in {"unset", "empty"}

NoError == [class |-> "none", at |-> "none"]
Raised(class, at) == [class |-> class, at |-> at]

\* texts: the first n strings of the data set, named by their position.
Texts(n) == [i \in 1..n |-> i]

\* The vector lists a response may carry for n texts: entry <<"emb", j>> is the
\* embedding of text j, <<"emb", 0>> one that belongs to none of them. The full
\* batch in order, every shorter batch, one vector too many, the batch reversed.
VectorLists(n) ==
    { [i \in 1..m |-> <<"emb", i>>] : m \in 0..n }
        \cup { [i \in 1..(n + 1) |-> IF i <= n THEN <<"emb", i>> ELSE <<"emb", 0>>] }
        \cup { [i \in 1..n |-> <<"emb", n + 1 - i>>] }

\* The JSON bodies of a response: {"data": [{"embedding": v}, ...]},
\* {"data": [{...}]} without the embedding key, {"embeddings": [v, ...]},
\* an object with neither key, and a body that is no JSON.
Bodies(n) ==
    { [shape |-> sh, vectors |-> vs] : sh \in {"data", "embeddings"}, vs \in VectorLists(n) }
        \cup { [shape |-> sh, vectors |-> <<>>] : sh \in {"data_no_embedding", "other", "not_json"} }

\* What httpx.post meets: no connection, a timeout, or an HTTP response.
Responses(n) ==
    { [kind |-> k, status |-> 0, body |-> [shape |-> "other", vectors |-> <<>>]] :
          k \in {"connect_error", "timeout"} }
        \cup { [kind |-> "http", status |-> st, body |-> [shape |-> "other", vectors |-> <<>>]] :
                  st \in {401, 403, 429, 500} }
        \cup { [kind |-> "http", status |-> 200, body |-> b] : b \in Bodies(n) }

\* Mutant of ConfigMissing: "and" in place of "or".
ConfigMissingBoth(cfg) == Falsy(cfg.url) /\ Falsy(cfg.key)

\* "not EMBED_API_URL or not EMBED_API_KEY"
ConfigMissing(cfg) == Falsy(cfg.url) \/ Falsy(cfg.key)

\* Mutant of EmbedRequests: a request that got no 200 answer is posted again.
EmbedRequestsRetrying(cfg, texts, resp) ==
    IF ConfigMissing(cfg) THEN <<>>
    ELSE IF resp.kind = "http" /\ resp.status = 200
         THEN << [url |-> cfg.url, key |-> cfg.key, input |-> texts] >>
         ELSE << [url |-> cfg.url, key |-> cfg.key, input |-> texts],
                 [url |-> cfg.url, key |-> cfg.key, input |-> texts] >>

\* The httpx.post calls of one embed call: none when the configuration is
\* missing, else one request with the bearer key and all texts as "input".
EmbedRequests(cfg, texts, resp) ==
    IF ConfigMissing(cfg) THEN <<>>
    ELSE << [url |-> cfg.url, key |-> cfg.key, input |-> texts] >>

\* Mutant of EmbedResult: a 401 answer is left to raise_for_status.
EmbedResultNo401(cfg, resp) ==
    IF ConfigMissing(cfg) THEN [err |-> Raised("RuntimeError", "config"), value |-> <<>>]
    ELSE IF resp.kind = "connect_error" THEN [err |-> Raised("ConnectError", "post"), value |-> <<>>]
    ELSE IF resp.kind = "timeout" THEN [err |-> Raised("TimeoutException", "post"), value |-> <<>>]
    ELSE IF resp.status < 200 \/ resp.status > 299
         THEN [err |-> Raised("HTTPStatusError", "raise_for_status"), value |-> <<>>]
    ELSE IF resp.body.shape = "not_json"
         THEN [err |-> Raised("JSONDecodeError", "json"), value |-> <<>>]
    ELSE IF resp.body.shape = "data" THEN [err |-> NoError, value |-> resp.body.vectors]
    ELSE IF resp.body.shape = "data_no_embedding"
         THEN [err |-> Raised("KeyError", "embedding"), value |-> <<>>]
    ELSE IF resp.body.shape = "embeddings" THEN [err |-> NoError, value |-> resp.body.vectors]
    ELSE [err |-> Raised("ValueError", "format"), value |-> <<>>]

\* embed(texts): what it raises or returns, given the configuration and the
\* remote's behaviour. The returned list is the response's, as it came.
EmbedResult(cfg, resp) ==
    IF ConfigMissing(cfg) THEN [err |-> Raised("RuntimeError", "config"), value |-> <<>>]
    ELSE IF resp.kind = "connect_error" THEN [err |-> Raised("ConnectError", "post"), value |-> <<>>]
    ELSE IF resp.kind = "timeout" THEN [err |-> Raised("TimeoutException", "post"), value |-> <<>>]
    ELSE IF resp.status = 401 THEN [err |-> Raised("RuntimeError", "auth"), value |-> <<>>]
    ELSE IF resp.status < 200 \/ resp.status > 299
         THEN [err |-> Raised("HTTPStatusError", "raise_for_status"), value |-> <<>>]
    ELSE IF resp.body.shape = "not_json"
         THEN [err |-> Raised("JSONDecodeError", "json"), value |-> <<>>]
    ELSE IF resp.body.shape = "data" THEN [err |-> NoError, value |-> resp.body.vectors]
    ELSE IF resp.body.shape = "data_no_embedding"
         THEN [err |-> Raised("KeyError", "embedding"), value |-> <<>>]
    ELSE IF resp.body.shape = "embeddings" THEN [err |-> NoError, value |-> resp.body.vectors]
    ELSE [err |-> Raised("ValueError", "format"), value |-> <<>>]

NoEmbedCall == [texts |-> <<>>, resp |-> [kind |-> "none"]]

\* No embed call is part of the behaviour.
EmbedUnused ==
    /\ embedCfg = [url |-> "set", key |-> "set"]
    /\ embedCall = NoEmbedCall
    /\ embedSent = <<>>
    /\ embedOut = [err |-> NoError, value |-> <<>>]

\* embed(texts), the remote answering with resp.
Embed(texts, resp) ==
    /\ embedCall' = [texts |-> texts, resp |-> resp]
    /\ embedSent' = EmbedRequests(embedCfg, texts, resp)
    /\ embedOut' = EmbedResult(embedCfg, resp)
    /\ UNCHANGED embedCfg

\* ------------------------------------------------ threads in the store
Searchers == {"s1", "s2"}

IdleSearcher ==
    [pc |-> "idle", query |-> <<>>, top_k |-> 0, labels |-> <<>>, i |-> 0,
     results |-> <<>>, err |-> "none", overlap |-> FALSE]
IdleAdder == [pc |-> "idle", new_payloads |-> <<>>]

\* No thread is inside the store.
ConcUnused ==
    /\ searchers = [t \in Searchers |-> IdleSearcher]
    /\ adder = IdleAdder

\* ------------------------------------------------------------ the server
NoRequest ==
    [path |-> "none", req |-> [top_k |-> 0, use_vision |-> FALSE], status |-> 0,
     detail |-> "none", calls |-> <<>>, llm |-> <<>>, ids |-> <<>>,
     health |-> [items |-> 0, store_loaded |-> FALSE]]

\* The import of app.py is over; what it found is of no account.
NoFiles == [pickle |-> [kind |-> "missing", n |-> 0, m |-> 0],
            jsonl |-> [kind |-> "missing", k |-> 0]]
LoadUnused ==
    /\ loadEnv = NoFiles
    /\ startup = [phase |-> "loaded", source |-> "none", calls |-> <<>>,
                  err |-> [class |-> "none", at |-> "none"]]

\* No helper function is part of the behaviour.
NoCall == [fn |-> "none"]
NoRetry == [pc |-> "none"]
ToolsUnused ==
    /\ fnCall = NoCall
    /\ retry = NoRetry

\* The server is not part of the behaviour.
ServerUnused ==
    /\ LoadUnused
    /\ ToolsUnused
    /\ items = <<>>
    /\ modelCfg = [url |-> "set", key |-> "set"]
    /\ served = NoRequest

\* ---------------------------------------------------------------- actions
Init ==
    /\ ConcUnused
    /\ ServerUnused
    /\ EmbedUnused
    /\ dim \in Dims
    /\ index = <<>>
    /\ payloads = <<>>
    /\ op = NoOp("create")
    /\ ret = <<>>
    /\ err = "none"
    /\ aligned = TRUE

\* VectorStore(dim)
Create(d) ==
    /\ dim' = d
    /\ index' = <<>>
    /\ payloads' = <<>>
    /\ op' = NoOp("create")
    /\ ret' = <<>>
    /\ err' = "none"
    /\ aligned' = TRUE

\* Mutant of Add: the new vectors and payloads are put in front of the stored ones.
AddPrepending(embeddings, new_payloads) ==
    LET e == IndexAddError(dim, NpShape(embeddings))
    IN /\ op' = [NoOp("add") EXCEPT
                    !.nv = Len(embeddings), !.np = Len(new_payloads),
                    !.dimok = \A i \in 1..Len(embeddings) : Len(embeddings[i]) = dim,
                    !.oldn = Len(index), !.oldp = Len(payloads)]
       /\ ret' = <<>>
       /\ err' = e
       /\ dim' = dim
       /\ IF e # "none"
          THEN UNCHANGED <<index, payloads, aligned>>
          ELSE /\ index' = embeddings \o index
               /\ payloads' = new_payloads \o payloads
               /\ aligned' = (/\ aligned
                              /\ Len(embeddings) = Len(new_payloads)
                              /\ Len(index) = Len(payloads))

\* store.add(embeddings, new_payloads)
Add(embeddings, new_payloads) ==
    LET e == IndexAddError(dim, NpShape(embeddings))
    IN /\ op' = [NoOp("add") EXCEPT
                    !.nv = Len(embeddings), !.np = Len(new_payloads),
                    !.dimok = \A i \in 1..Len(embeddings) : Len(embeddings[i]) = dim,
                    !.oldn = Len(index), !.oldp = Len(payloads)]
       /\ ret' = <<>>
       /\ err' = e
       /\ dim' = dim
       /\ IF e # "none"
          THEN UNCHANGED <<index, payloads, aligned>>
          ELSE /\ index' = index \o embeddings
               /\ payloads' = payloads \o new_payloads
               /\ aligned' = (/\ aligned
                              /\ Len(embeddings) = Len(new_payloads)
                              /\ \A i \in 1..Len(embeddings) :
                                    Len(index) + i = Len(payloads) + i)

\* Mutant of Search: each returned payload is taken out of self.payloads
\* (the list loses as many entries as were returned).
SearchPopping(query, top_k) ==
    LET out == SearchOutcome(dim, index, payloads, query, top_k)
    IN /\ op' = [NoOp("search") EXCEPT !.query = query, !.top_k = top_k]
       /\ ret' = out.value
       /\ err' = out.err
       /\ payloads' = SubSeq(payloads, 1, Len(payloads) - Len(out.value))
       /\ UNCHANGED <<dim, index, aligned>>

\* store.search(query, top_k)
Search(query, top_k) ==
    LET out == SearchOutcome(dim, index, payloads, query, top_k)
    IN /\ op' = [NoOp("search") EXCEPT !.query = query, !.top_k = top_k]
       /\ ret' = out.value
       /\ err' = out.err
       /\ UNCHANGED <<dim, index, payloads, aligned>>

\* The next np data-set payloads, submitted after the ones already stored.
NextPayloads(np) == [i \in 1..np |-> Payload(Len(payloads) + i)]

DoCreate ==
    /\ \E d \in Dims : Create(d)
    /\ UNCHANGED <<embedVars, concVars, serverVars, loadVars, toolVars>>

DoAdd ==
    \E embeddings \in SeqsUpTo(VecPool(dim), MaxBatch) \cup BadBatches(dim),
       np \in 0..(MaxBatch + 1) :
        /\ Len(index) + Len(embeddings) <= MaxEntries
        /\ Len(payloads) + np <= MaxEntries
        /\ Add(embeddings, NextPayloads(np))
        /\ UNCHANGED <<embedVars, concVars, serverVars, loadVars, toolVars>>

DoSearch ==
    /\ \E query \in QueryInputs(dim), top_k \in TopKs : Search(query, top_k)
    /\ UNCHANGED <<embedVars, concVars, serverVars, loadVars, toolVars>>

Next == DoCreate \/ DoAdd \/ DoSearch

Spec == Init /\ [][Next]_vars

\* --------------------------------------- the embedding client on its own
\* No store call is part of the behaviour.
StoreUnused ==
    /\ dim = 1
    /\ index = <<>>
    /\ payloads = <<>>
    /\ op = NoOp("create")
    /\ ret = <<>>
    /\ err = "none"
    /\ aligned = TRUE

EmbedInit ==
    /\ StoreUnused
    /\ ConcUnused
    /\ ServerUnused
    /\ embedCfg \in [url : EnvValues, key : EnvValues]
    /\ embedCall = NoEmbedCall
    /\ embedSent = <<>>
    /\ embedOut = [err |-> NoError, value |-> <<>>]

DoEmbed ==
    /\ \E n \in 1..MaxTexts : \E resp \in Responses(n) : Embed(Texts(n), resp)
    /\ UNCHANGED <<storeVars, concVars, serverVars, loadVars, toolVars>>

EmbedNext == DoEmbed

SpecEmbed == EmbedInit /\ [][EmbedNext]_vars

\* ----------------------------------------------------------------- claims
\* The Python exceptions that report a rejected argument.
InvalidArgumentError == {"ValueError", "AssertionError"}

MinOf(a, b) == IF a < b THEN a ELSE b
MaxOf(a, b) == IF a < b THEN b ELSE a

\* The last call was a search with a query of the store's dimension.
SearchedWith(k) ==
    /\ op.name = "search"
    /\ Len(op.query) = dim
    /\ op.top_k = k

\* Positions of ret at which payload p is returned.
ReturnedAt(p) == { j \in 1..Len(ret) : ret[j][2] = p }

\* C1: in every reachable state the index holds as many vectors as there are
\* payloads, and the i-th vector is the one added together with the i-th payload.
C1_VectorPayloadCorrespondence ==
    /\ Len(index) = Len(payloads)
    /\ aligned

\* C2: an add whose lists differ in length, or with a vector whose length is
\* not dim, fails with an invalid-argument error and leaves the index and
\* the payload list as they were.
C2_AddRejectsBadInput ==
    (op.name = "add" /\ (op.nv # op.np \/ ~op.dimok))
        => /\ err \in InvalidArgumentError
           /\ Len(index) = op.oldn
           /\ Len(payloads) = op.oldp

\* C3: a sequence returned by search with top_k >= 1 has non-increasing
\* scores, at most top_k elements and at most as many as the store holds.
C3_SearchSortedAndBounded ==
    (op.name = "search" /\ op.top_k >= 1 /\ err = "none")
        => /\ \A j \in 1..(Len(ret) - 1) : ret[j][1] >= ret[j + 1][1]
           /\ Len(ret) <= op.top_k
           /\ Len(ret) <= Len(index)
           /\ Len(ret) <= Len(payloads)

C3_Witness ==
    /\ op.name = "search" /\ err = "none"
    /\ Len(index) = 3 /\ op.top_k = 2 /\ Len(ret) = 2
    /\ ret[1][1] > ret[2][1]

\* C4: search with top_k >= 1 returns exactly the min(top_k, size) stored
\* entries of highest inner product with the query, each as
\* (inner product, payload at the same position), as an exhaustive scan would.
C4_SearchIsExhaustiveTopK ==
    \A k \in 1..(MaxEntries + 1) :
        SearchedWith(k) =>
            /\ err = "none"
            /\ Len(ret) = MinOf(k, Len(index))
            /\ \E sel \in [1..Len(ret) -> 1..Len(index)] :
                /\ \A i, j \in 1..Len(ret) : i # j => sel[i] # sel[j]
                /\ \A j \in 1..Len(ret) :
                    /\ sel[j] <= Len(payloads)
                    /\ ret[j] = <<InnerProduct(op.query, index[sel[j]]), payloads[sel[j]]>>
                /\ \A i \in 1..Len(index) :
                    (\A j \in 1..Len(ret) : sel[j] # i)
                        => \A j \in 1..Len(ret) :
                              InnerProduct(op.query, index[i]) <= ret[j][1]

\* The store of the tie scenario: [1,0,0,0], [0,1,0,0], [1,1,0,0] with
\* payloads a, b, c, searched with [1,0,0,0] and top_k = 2.
TieScenario ==
    /\ dim = 4
    /\ index = << <<1, 0, 0, 0>>, <<0, 1, 0, 0>>, <<1, 1, 0, 0>> >>
    /\ payloads = << Payload(1), Payload(2), Payload(3) >>
    /\ op.name = "search" /\ op.query = <<1, 0, 0, 0>> /\ op.top_k = 2

\* C5: entries of equal score are returned in insertion order, lowest index
\* first; the tie scenario returns payloads a, c in that order.
C5_TiesByInsertionOrder ==
    /\ (op.name = "search" /\ err = "none" /\ aligned)
          => \A j \in 1..(Len(ret) - 1) :
                ret[j][1] = ret[j + 1][1]
                    => \A x, y \in 1..Len(payloads) :
                          (payloads[x] = ret[j][2] /\ payloads[y] = ret[j + 1][2]) => x < y
    /\ TieScenario => ret = << <<1, Payload(1)>>, <<1, Payload(3)>> >>

\* C6: search with top_k <= 0 fails with an invalid-argument error and
\* returns nothing, whatever the store holds.
C6_NonPositiveTopKFails ==
    (op.name = "search" /\ op.top_k <= 0)
        => /\ err \in InvalidArgumentError
           /\ ret = <<>>

C6_Witness ==
    /\ SearchedWith(0)
    /\ Len(index) > 0 /\ Len(index) = Len(payloads)
    /\ err = "AssertionError"

\* C7: an add of n vectors of length dim with n payloads grows the store by
\* exactly n, and every new payload is returned by some later search.
C7_AddGrowsAndIsSearchable ==
    (op.name = "add" /\ op.nv = op.np /\ op.dimok /\ err = "none")
        => /\ Len(index) = op.oldn + op.nv
           /\ Len(payloads) = op.oldp + op.np
           /\ \A i \in (op.oldp + 1)..(op.oldp + op.np) :
                \E q \in VecPool(dim), k \in 1..(MaxEntries + 1) :
                    LET out == SearchOutcome(dim, index, payloads, q, k)
                    IN /\ out.err = "none"
                       /\ \E j \in 1..Len(out.value) : out.value[j][2] = payloads[i]

\* C8: a freshly created store has no vectors and no payloads, and every
\* search on it with a query of length dim and top_k >= 1 returns the empty
\* sequence without error.
C8_FreshStoreIsEmpty ==
    /\ op.name = "create" => (index = <<>> /\ payloads = <<>>)
    /\ \A k \in 1..(MaxEntries + 1) :
          (SearchedWith(k) /\ index = <<>> /\ payloads = <<>>)
              => (err = "none" /\ ret = <<>>)

C8_Witness ==
    /\ SearchedWith(2)
    /\ index = <<>> /\ payloads = <<>>
    /\ err = "none" /\ ret = <<>>

\* C9: a search whose top_k exceeds the number of stored entries returns every
\* stored entry exactly once: as many results as entries, no placeholders.
C9_LargeTopKReturnsAll ==
    \A k \in 1..(MaxEntries + 1) :
        (SearchedWith(k) /\ k > MaxOf(Len(index), Len(payloads)))
            => /\ err = "none"
               /\ Len(ret) = Len(index)
               /\ \A i \in 1..Len(payloads) : Cardinality(ReturnedAt(payloads[i])) = 1

C11_AppendOnly ==
    [][ op'.name # "create"
          => /\ Len(index) <= Len(index')
             /\ SubSeq(index', 1, Len(index)) = index
             /\ Len(payloads) <= Len(payloads')
             /\ SubSeq(payloads', 1, Len(payloads)) = payloads
             /\ op'.name = "search" => (index' = index /\ payloads' = payloads) ]_vars

C11_Witness ==
    /\ op.name = "add" /\ err = "none"
    /\ op.oldn >= 1 /\ op.nv >= 1
    /\ Len(index) = op.oldn + op.nv

\* ------------------------------------- store.add and store.search in threads
\* faiss's index.add and index.search are taken as single steps (an overlap
\* inside faiss itself is not modelled); between them, and between the
\* iterations of search's loop, the threads interleave freely.
MaxConcEntries == 2    \* the store holds at most this many entries in this specification

\* The queries of the searching threads: well-formed, with a score that
\* tells the stored vectors apart.
ConcQueries == { v \in VecPool(dim) : v[1] = 1 }

\* Every thread that is inside search, or has a finished search to show, has
\* now seen an add at work.
MarkOverlap(ss) ==
    [t \in Searchers |->
        IF ss[t].pc = "idle" THEN ss[t] ELSE [ss[t] EXCEPT !.overlap = TRUE]]

\* search, lines 20-22: the index is searched and the result list started.
SearchStart(t, query, top_k) ==
    /\ searchers[t].pc = "idle"
    /\ LET e == IndexSearchError(dim, query, top_k)
       IN searchers' = [searchers EXCEPT ![t] =
            [pc |-> IF e = "none" THEN "loop" ELSE "done",
             query |-> query, top_k |-> top_k,
             labels |-> IF e = "none" THEN IndexSearch(index, query, top_k) ELSE <<>>,
             i |-> 1, results |-> <<>>, err |-> e,
             overlap |-> adder.pc # "idle"]]
    /\ UNCHANGED <<dim, index, payloads, adder>>

\* Mutant of SearchLoop: the result list is one list shared by the threads
\* (an attribute of the store), so every thread inside the loop gets the entry.
SearchLoopShared(t) ==
    /\ searchers[t].pc = "loop"
    /\ LET me == searchers[t]
           idx == me.labels[me.i][2]
       IN IF me.i > Len(me.labels)
          THEN searchers' = [searchers EXCEPT ![t].pc = "done"]
          ELSE IF idx = 0 - 1
          THEN searchers' = [searchers EXCEPT ![t].i = me.i + 1]
          ELSE IF idx + 1 > Len(payloads)
          THEN searchers' = [searchers EXCEPT ![t].pc = "done", ![t].err = "IndexError",
                                              ![t].results = <<>>]
          ELSE searchers' = [u \in Searchers |->
                  IF u = t
                  THEN [me EXCEPT !.i = me.i + 1,
                                  !.results = Append(me.results, <<me.labels[me.i][1], payloads[idx + 1]>>)]
                  ELSE IF searchers[u].pc = "loop"
                  THEN [searchers[u] EXCEPT
                          !.results = Append(searchers[u].results, <<me.labels[me.i][1], payloads[idx + 1]>>)]
                  ELSE searchers[u]]
    /\ UNCHANGED <<dim, index, payloads, adder>>

\* search, lines 23-27: one iteration of the loop, or the return after the last.
SearchLoop(t) ==
    /\ searchers[t].pc = "loop"
    /\ LET me == searchers[t]
           idx == me.labels[me.i][2]
       IN IF me.i > Len(me.labels)
          THEN searchers' = [searchers EXCEPT ![t].pc = "done"]
          ELSE IF idx = 0 - 1
          THEN searchers' = [searchers EXCEPT ![t].i = me.i + 1]
          ELSE IF idx + 1 > Len(payloads)
          THEN searchers' = [searchers EXCEPT ![t].pc = "done", ![t].err = "IndexError",
                                              ![t].results = <<>>]
          ELSE searchers' = [searchers EXCEPT
                  ![t].i = me.i + 1,
                  ![t].results = Append(me.results, <<me.labels[me.i][1], payloads[idx + 1]>>)]
    /\ UNCHANGED <<dim, index, payloads, adder>>

\* The caller takes the result; the thread is free for another search.
SearchReturn(t) ==
    /\ searchers[t].pc = "done"
    /\ searchers' = [searchers EXCEPT ![t] = IdleSearcher]
    /\ UNCHANGED <<dim, index, payloads, adder>>

\* Mutant of AddIndexStep: the payloads are stored first, the vectors second.
AddPayloadsFirst(embeddings, new_payloads) ==
    /\ adder.pc = "idle"
    /\ IndexAddError(dim, NpShape(embeddings)) = "none"
    /\ payloads' = payloads \o new_payloads
    /\ adder' = [pc |-> "indexed", new_payloads |-> new_payloads]
    /\ searchers' = MarkOverlap(searchers)
    /\ UNCHANGED <<dim, index>>

\* add, lines 15-16: self.index.add(arr).
AddIndexStep(embeddings, new_payloads) ==
    /\ adder.pc = "idle"
    /\ IndexAddError(dim, NpShape(embeddings)) = "none"
    /\ index' = index \o embeddings
    /\ adder' = [pc |-> "indexed", new_payloads |-> new_payloads]
    /\ searchers' = MarkOverlap(searchers)
    /\ UNCHANGED <<dim, payloads>>

\* add, line 17: self.payloads.extend(payloads).
AddPayloadsStep ==
    /\ adder.pc = "indexed"
    /\ payloads' = payloads \o adder.new_payloads
    /\ adder' = IdleAdder
    /\ searchers' = MarkOverlap(searchers)
    /\ UNCHANGED <<dim, index>>

ConcFrame == UNCHANGED <<op, ret, err, aligned, embedVars, serverVars, loadVars, toolVars>>

\* A store of dimension 1, as yet empty, and no thread inside it.
ConcInit ==
    /\ dim = 1
    /\ index = <<>>
    /\ payloads = <<>>
    /\ op = NoOp("create")
    /\ ret = <<>>
    /\ err = "none"
    /\ aligned = TRUE
    /\ ConcUnused
    /\ ServerUnused
    /\ EmbedUnused

ThreadSearchStart ==
    /\ \E t \in Searchers, query \in ConcQueries, top_k \in 1..MaxConcEntries :
          SearchStart(t, query, top_k)
    /\ ConcFrame

ThreadSearchLoop == (\E t \in Searchers : SearchLoop(t)) /\ ConcFrame

ThreadSearchReturn == (\E t \in Searchers : SearchReturn(t)) /\ ConcFrame

\* A well-formed add: as many payloads as vectors, all of length dim.
ThreadAddIndex ==
    /\ \E embeddings \in SeqsUpTo(VecPool(dim), MaxBatch) :
          /\ Len(embeddings) >= 1
          /\ Len(index) + Len(embeddings) <= MaxConcEntries
          /\ AddIndexStep(embeddings, NextPayloads(Len(embeddings)))
    /\ ConcFrame

ThreadAddPayloads == AddPayloadsStep /\ ConcFrame

ConcNext ==
    \/ ThreadSearchStart
    \/ ThreadSearchLoop
    \/ ThreadSearchReturn
    \/ ThreadAddIndex
    \/ ThreadAddPayloads

SpecConc == ConcInit /\ [][ConcNext]_vars

\* -------------------------------------------------------- backend/app.py
MaxServerEntries == 2   \* the pickled store and the item list hold at most this many entries

\* LLM_API_URL after the clean-up at import: not set, set to nothing but
\* characters call_llm strips (quotes, "="), or a URL. LLM_API_KEY: set or not.
LlmUrlValues == {"unset", "quotes", "set"}
LlmKeyValues == {"unset", "set"}

\* What an LLM endpoint does to one httpx.post: no connection, a timeout, an
\* error status, or 200 with a body: chat choices whose content is a JSON
\* object, choices whose content is plain text, JSON without choices, no JSON.
LlmResponses ==
    { [kind |-> k, status |-> 0, body |-> "none"] : k \in {"connect_error", "timeout"} }
        \cup { [kind |-> "http", status |-> 429, body |-> "error"] }
        \cup { [kind |-> "http", status |-> 200, body |-> b] :
                  b \in {"choices_json", "choices_text", "no_choices", "not_json"} }

\* Python values a call hands back: None, or a dict with its keys.
FourKeys == {"direct", "step_by_step", "intuitive", "shortcut"}
PyNone == [type |-> "NoneType", keys |-> {}]
PyDict(keys) == [type |-> "dict", keys |-> keys]

Returned(v) == [kind |-> "return", class |-> "none", status |-> 0, value |-> v]
RaisedHTTP(status) ==
    [kind |-> "raise", class |-> "HTTPException", status |-> status, value |-> PyNone]
RaisedOther(class) == [kind |-> "raise", class |-> class, status |-> 0, value |-> PyNone]

\* Mutant of CallLlm: an error status ends in the "except Exception" handler.
CallLlmStatusLost(cfg, resp) ==
    IF cfg.url = "unset" \/ cfg.key = "unset" THEN RaisedHTTP(500)
    ELSE IF cfg.url = "quotes" THEN RaisedHTTP(500)
    ELSE IF resp.kind = "connect_error" THEN RaisedHTTP(500)
    ELSE IF resp.kind = "timeout" THEN RaisedHTTP(500)
    ELSE IF resp.status < 200 \/ resp.status > 299 THEN RaisedHTTP(500)
    ELSE IF resp.body = "not_json" THEN RaisedHTTP(500)
    ELSE Returned(PyNone)

\* call_llm(prompt). The code that reads the choices and returns the four
\* fields (lines 244-283) stands after the raise of the HTTPStatusError
\* handler, inside that handler: it never runs, and a call whose try block
\* succeeds leaves the function at its end.
CallLlm(cfg, resp) ==
    IF cfg.url = "unset" \/ cfg.key = "unset" THEN RaisedHTTP(500)
    ELSE IF cfg.url = "quotes" THEN RaisedHTTP(500)
    ELSE IF resp.kind = "connect_error" THEN RaisedHTTP(500)
    ELSE IF resp.kind = "timeout" THEN RaisedHTTP(500)
    ELSE IF resp.status < 200 \/ resp.status > 299 THEN RaisedHTTP(resp.status)
    ELSE IF resp.body = "not_json" THEN RaisedHTTP(500)
    ELSE Returned(PyNone)

\* call_llm_with_vision(...): no handler of its own, so every failure leaves
\* it as the exception httpx or json raised.
CallLlmWithVision(cfg, resp) ==
    IF cfg.url # "set" THEN RaisedOther("UnsupportedProtocol")
    ELSE IF resp.kind = "connect_error" THEN RaisedOther("ConnectError")
    ELSE IF resp.kind = "timeout" THEN RaisedOther("TimeoutException")
    ELSE IF resp.status < 200 \/ resp.status > 299 THEN RaisedOther("HTTPStatusError")
    ELSE IF resp.body = "not_json" THEN RaisedOther("JSONDecodeError")
    ELSE IF resp.body = "no_choices" THEN Returned(PyDict({}))
    ELSE Returned(PyDict(FourKeys))

\* The requests of /solve: top_k as sent (no validation), use_vision.
SolveRequests ==
    { [top_k |-> k, use_vision |-> v] : k \in {0, 1, MaxServerEntries}, v \in BOOLEAN }
NoSolveRequest == [top_k |-> 0, use_vision |-> FALSE]

\* What the embedding service answers to the one-question request of /solve.
ServerEmbedResponses ==
    { r \in Responses(1) :
        \/ r.kind = "connect_error"
        \/ r.kind = "http" /\ r.status = 401
        \/ r.kind = "http" /\ r.status = 200 /\ r.body.shape = "data" /\ Len(r.body.vectors) <= 1 }

\* The vector the service sent for the question: of the store's dimension or not.
ServerQueries == { [j \in 1..dim |-> IF j = 1 THEN 1 ELSE 0], WrongDimVec(dim) }

\* A served request: the calls the handler made in order, the LLM calls with
\* what the endpoint did and what the call handed back, and the response.
Response(path, req, status, detail, calls, llm, ids) ==
    [path |-> path, req |-> req, status |-> status, detail |-> detail,
     calls |-> calls, llm |-> llm, ids |-> ids,
     health |-> [items |-> 0, store_loaded |-> FALSE]]
LlmCall(fn, resp, out) == [fn |-> fn, resp |-> resp, out |-> out]

\* Whether call_llm gets as far as its httpx.post.
CallLlmPosts(cfg) == cfg.url = "set" /\ cfg.key = "set"
NoLlmResponse == [kind |-> "none", status |-> 0, body |-> "none"]

\* solve, lines 403-456: the four fields are read with llm_res.get, which a
\* value that is no dict does not have; an exception that is no HTTPException
\* is answered by the global handler with 500.
SolveFinish(req, contexts, calls, llm, out) ==
    served' =
        IF out.kind = "raise"
        THEN IF out.class = "HTTPException"
             THEN Response("solve", req, out.status, "LLM error", calls, llm, <<>>)
             ELSE Response("solve", req, 500, "Internal server error", calls, llm, <<>>)
        ELSE IF out.value.type # "dict"
        THEN Response("solve", req, 500, "Internal server error", calls, llm, <<>>)
        ELSE Response("solve", req, 200, "ok", calls, llm,
                      [i \in 1..Len(contexts) |-> contexts[i].id])

\* One call of call_llm by the handler, the endpoint answering with resp.
AskLlm(resp) ==
    LlmCall("call_llm", IF CallLlmPosts(modelCfg) THEN resp ELSE NoLlmResponse,
            CallLlm(modelCfg, resp))
AskVision(resp) ==
    LlmCall("call_llm_with_vision", IF modelCfg.url = "set" THEN resp ELSE NoLlmResponse,
            CallLlmWithVision(modelCfg, resp))

\* solve, lines 369-401: text-only, or with use_vision the vision call when
\* the frames directory exists, and call_llm again after any exception.
SolveAsk(req, contexts) ==
    LET pre == <<"embed", "search">>
    IN IF ~req.use_vision
       THEN \E r \in LlmResponses :
               SolveFinish(req, contexts, pre \o <<"call_llm">>, <<AskLlm(r)>>, AskLlm(r).out)
       ELSE \E frames \in BOOLEAN :
               IF frames
               THEN \E v \in LlmResponses :
                       IF AskVision(v).out.kind = "return"
                       THEN SolveFinish(req, contexts, pre \o <<"call_llm_with_vision">>,
                                        <<AskVision(v)>>, AskVision(v).out)
                       ELSE \E r \in LlmResponses :
                               SolveFinish(req, contexts,
                                           pre \o <<"call_llm_with_vision", "call_llm">>,
                                           <<AskVision(v), AskLlm(r)>>, AskLlm(r).out)
               ELSE \E r1 \in LlmResponses :
                       IF AskLlm(r1).out.kind = "return"
                       THEN SolveFinish(req, contexts, pre \o <<"call_llm">>,
                                        <<AskLlm(r1)>>, AskLlm(r1).out)
                       ELSE \E r2 \in LlmResponses :
                               SolveFinish(req, contexts, pre \o <<"call_llm", "call_llm">>,
                                           <<AskLlm(r1), AskLlm(r2)>>, AskLlm(r2).out)

\* Mutant of Solve: the question is embedded before the emptiness checks.
SolveEmbedFirst(req) ==
    /\ \E eresp \in ServerEmbedResponses :
          LET e == EmbedResult(embedCfg, eresp)
          IN IF e.err # NoError \/ e.value = <<>>
             THEN served' = Response("solve", req, 500, "Embedding failed",
                                     <<"embed">>, <<>>, <<>>)
             ELSE IF items = <<>>
             THEN served' = Response("solve", req, 400, "Dataset empty", <<"embed">>, <<>>, <<>>)
             ELSE IF Len(index) = 0
             THEN served' = Response("solve", req, 400, "Vector store is empty",
                                     <<"embed">>, <<>>, <<>>)
             ELSE \E q_embed \in ServerQueries :
                     LET s == SearchOutcome(dim, index, payloads, q_embed, req.top_k)
                     IN IF s.err # "none"
                        THEN served' = Response("solve", req, 500, "Internal server error",
                                                <<"embed", "search">>, <<>>, <<>>)
                        ELSE IF s.value = <<>>
                        THEN served' = Response("solve", req, 404, "No similar problems found.",
                                                <<"embed", "search">>, <<>>, <<>>)
                        ELSE SolveAsk(req, [i \in 1..Len(s.value) |-> s.value[i][2]])
    /\ UNCHANGED <<dim, index, payloads, items, modelCfg>>

\* POST /solve.
Solve(req) ==
    /\ IF items = <<>>
       THEN served' = Response("solve", req, 400, "Dataset empty", <<>>, <<>>, <<>>)
       ELSE IF Len(index) = 0
       THEN served' = Response("solve", req, 400, "Vector store is empty", <<>>, <<>>, <<>>)
       ELSE \E eresp \in ServerEmbedResponses :
               LET e == EmbedResult(embedCfg, eresp)
               IN IF e.err # NoError
                  THEN served' = Response("solve", req, 500,
                                          IF e.err.class = "RuntimeError"
                                          THEN "Embedding API error" ELSE "Embedding failed",
                                          <<"embed">>, <<>>, <<>>)
                  ELSE IF e.value = <<>>
                  THEN served' = Response("solve", req, 500, "Embedding failed",
                                          <<"embed">>, <<>>, <<>>)
                  ELSE \E q_embed \in ServerQueries :
                          LET s == SearchOutcome(dim, index, payloads, q_embed, req.top_k)
                          IN IF s.err # "none"
                             THEN served' = Response("solve", req, 500, "Internal server error",
                                                     <<"embed", "search">>, <<>>, <<>>)
                             ELSE IF s.value = <<>>
                             THEN served' = Response("solve", req, 404, "No similar problems found.",
                                                     <<"embed", "search">>, <<>>, <<>>)
                             ELSE SolveAsk(req, [i \in 1..Len(s.value) |-> s.value[i][2]])
    /\ UNCHANGED <<dim, index, payloads, items, modelCfg>>

\* GET /.
Root ==
    /\ served' = Response("root", NoSolveRequest, 200, "Reasoning GPT API", <<>>, <<>>, <<>>)
    /\ UNCHANGED <<dim, index, payloads, items, modelCfg>>

\* Mutant of Health: the health check starts from an empty item list again.
HealthResetting ==
    /\ served' = [Response("health", NoSolveRequest, 200, "ok", <<>>, <<>>, <<>>)
                    EXCEPT !.health = [items |-> Len(items), store_loaded |-> Len(index) > 0]]
    /\ items' = <<>>
    /\ UNCHANGED <<dim, index, payloads, modelCfg>>

\* GET /health.
Health ==
    /\ served' = [Response("health", NoSolveRequest, 200, "ok", <<>>, <<>>, <<>>)
                    EXCEPT !.health = [items |-> Len(items), store_loaded |-> Len(index) > 0]]
    /\ UNCHANGED <<dim, index, payloads, items, modelCfg>>

\* The i-th vector of the loaded store.
LoadedVector(d, i) == [j \in 1..d |-> IF j = 1 \/ (j = 2 /\ i % 2 = 0) THEN 1 ELSE 0]

\* The state after "STORE, ITEMS = load_store()": an empty store of
\* dimension 1 with no items, or a store and an item list that both hold
\* something (the store's payloads are the items); and the configuration
\* read from the environment.
ServerInit ==
    /\ \E n, m \in 0..MaxServerEntries :
          /\ (n = 0) = (m = 0)
          /\ dim = IF n = 0 THEN 1 ELSE MaxDim
          /\ index = [i \in 1..n |-> LoadedVector(IF n = 0 THEN 1 ELSE MaxDim, i)]
          /\ payloads = [i \in 1..m |-> Payload(i)]
          /\ items = [i \in 1..m |-> Payload(i)]
    /\ op = NoOp("create")
    /\ ret = <<>>
    /\ err = "none"
    /\ aligned = TRUE
    /\ embedCfg \in [url : {"unset", "set"}, key : {"unset", "set"}]
    /\ embedCall = NoEmbedCall
    /\ embedSent = <<>>
    /\ embedOut = [err |-> NoError, value |-> <<>>]
    /\ ConcUnused
    /\ modelCfg \in [url : LlmUrlValues, key : LlmKeyValues]
    /\ served = NoRequest
    /\ LoadUnused
    /\ ToolsUnused

ServerFrame == UNCHANGED <<op, ret, err, aligned, embedVars, concVars, loadVars, toolVars>>

ServeRoot == Root /\ ServerFrame
ServeHealth == Health /\ ServerFrame
ServeSolve == (\E req \in SolveRequests : Solve(req)) /\ ServerFrame

ServerNext == ServeRoot \/ ServeHealth \/ ServeSolve

SpecServer == ServerInit /\ [][ServerNext]_vars

\* ------------------------------------------------ backend/app.py: load_store
\* The pickle at STORE_PATH: missing; unreadable (open or pickle.load raises);
\* something that is no dict; a dict whose store has no usable index (faiss
\* version mismatch); a dict whose items are None; or a dict with a store of n
\* vectors and a list of m items.
PickleFiles ==
    { [kind |-> k, n |-> 0, m |-> 0] :
          k \in {"missing", "unreadable", "not_dict", "no_index"} }
        \cup { [kind |-> "items_none", n |-> n, m |-> 0] : n \in 0..MaxServerEntries }
        \cup { [kind |-> "ok", n |-> n, m |-> m] : n, m \in 0..MaxServerEntries }

\* The JSONL file at DATA_PATH: missing, a line that is no JSON, or k items.
JsonlFiles ==
    { [kind |-> k, k |-> 0] : k \in {"missing", "bad_json"} }
        \cup { [kind |-> "ok", k |-> k] : k \in 0..MaxTexts }

\* Mutant of PickleUsable: the item list is not looked at.
PickleUsableByVectors(p) == p.kind \in {"ok", "items_none"} /\ p.n > 0

\* load_store, lines 109-128: the pickle is returned when it loads, its store
\* has ntotal > 0 and len(items) > 0; every exception on the way is caught.
PickleUsable(p) == p.kind = "ok" /\ p.n > 0 /\ p.m > 0

\* The calls load_store makes on the pickle before it decides.
PickleCalls(p) == IF p.kind = "missing" THEN <<>> ELSE <<"pickle.load">>

LoadResult(e, source, calls, d, xb, its) ==
    [err |-> e, source |-> source, calls |-> calls, dim |-> d, index |-> xb, items |-> its]

\* The vectors np.array makes of the embeddings the service sent.
EmbeddedVectors(tokens) == [i \in 1..Len(tokens) |-> LoadedVector(MaxDim, tokens[i][2])]

\* load_store, lines 130-167: the rebuild from the JSONL file.
Rebuild(env, cfg, resp, calls) ==
    IF env.jsonl.kind = "missing"
    THEN LoadResult(NoError, "empty", calls, 1, <<>>, <<>>)
    ELSE IF env.jsonl.kind = "bad_json"
    THEN LoadResult(Raised("JSONDecodeError", "load_jsonl"), "none",
                    calls \o <<"load_jsonl">>, 1, <<>>, <<>>)
    ELSE IF env.jsonl.k = 0
    THEN LoadResult(NoError, "empty", calls \o <<"load_jsonl">>, 1, <<>>, <<>>)
    ELSE IF Falsy(cfg.key)
    THEN LoadResult(NoError, "empty", calls \o <<"load_jsonl">>, 1, <<>>, <<>>)
    ELSE LET e == EmbedResult(cfg, resp)
             called == calls \o <<"load_jsonl", "embed">>
         IN IF e.err # NoError
            THEN LoadResult(e.err, "none", called, 1, <<>>, <<>>)
            ELSE IF e.value = <<>>
            THEN LoadResult(Raised("IndexError", "embeddings[0]"), "none", called, 1, <<>>, <<>>)
            ELSE LoadResult(NoError, "jsonl", called \o <<"store.add">>, MaxDim,
                            EmbeddedVectors(e.value), [i \in 1..env.jsonl.k |-> Payload(i)])

\* load_store(): what it returns or raises, given the files, the embedding
\* configuration and the embedding service's answer.
LoadStore(env, cfg, resp) ==
    IF PickleUsable(env.pickle)
    THEN LoadResult(NoError, "pickle", PickleCalls(env.pickle), MaxDim,
                    [i \in 1..env.pickle.n |-> LoadedVector(MaxDim, i)],
                    [i \in 1..env.pickle.m |-> Payload(i)])
    ELSE Rebuild(env, cfg, resp, PickleCalls(env.pickle) \o <<"fallback">>)

\* Whether load_store gets as far as its embed call.
LoadEmbeds(env, cfg) ==
    /\ ~PickleUsable(env.pickle)
    /\ env.jsonl.kind = "ok"
    /\ env.jsonl.k > 0
    /\ ~Falsy(cfg.key)

\* "STORE, ITEMS = load_store()" at import, line 170: the globals are bound
\* when load_store returns; when it raises, the import fails.
Startup(resp) ==
    /\ startup.phase = "before"
    /\ LET r == LoadStore(loadEnv, embedCfg, resp)
       IN IF r.err = NoError
          THEN /\ dim' = r.dim
               /\ index' = r.index
               /\ payloads' = r.items
               /\ items' = r.items
               /\ startup' = [phase |-> "loaded", source |-> r.source, calls |-> r.calls,
                              err |-> NoError]
          ELSE /\ startup' = [phase |-> "crashed", source |-> r.source, calls |-> r.calls,
                              err |-> r.err]
               /\ UNCHANGED <<dim, index, payloads, items>>
    /\ UNCHANGED loadEnv

LoadInit ==
    /\ StoreUnused
    /\ embedCfg \in [url : EnvValues, key : EnvValues]
    /\ embedCall = NoEmbedCall
    /\ embedSent = <<>>
    /\ embedOut = [err |-> NoError, value |-> <<>>]
    /\ ConcUnused
    /\ items = <<>>
    /\ modelCfg = [url |-> "set", key |-> "set"]
    /\ served = NoRequest
    /\ ToolsUnused
    /\ loadEnv \in [pickle : PickleFiles, jsonl : JsonlFiles]
    /\ startup = [phase |-> "before", source |-> "none", calls |-> <<>>, err |-> NoError]

LoadFrame ==
    UNCHANGED <<op, ret, err, aligned, embedVars, concVars, modelCfg, served, toolVars>>

\* The import of app.py with the embedding service answering as it does to a
\* batch of the data set's size.
DoStartup ==
    /\ IF LoadEmbeds(loadEnv, embedCfg)
       THEN \E resp \in Responses(loadEnv.jsonl.k) : Startup(resp)
       ELSE Startup(NoEmbedCall.resp)
    /\ LoadFrame

LoadNext == DoStartup

SpecLoad == LoadInit /\ [][LoadNext]_vars

\* ------------------------------------ retrieval/table_generator.py
MaxStepTokens == 3   \* a step_by_step text is made of at most this many pieces

\* A step_by_step text is a sequence of pieces: the table separators "+---"
\* and "+===", a cell bar "|", the marker "Table 1", the words the function
\* looks for ("therefore", "position", "set", "rank"), "TABLE" (a heading
\* without a number) and any other text.
StepTokens ==
    {"+---", "+===", "|", "Table 1", "therefore", "position", "set", "rank", "TABLE", "text"}
StepTexts == SeqsUpTo(StepTokens, MaxStepTokens)

\* A question is told by the first keyword list it meets: "grid" (only the
\* list of the basic template), "table" (that list and the circular one),
\* "around", "venn", "rank", or none of them.
Questions == {"grid", "table", "around", "venn", "rank", "plain"}

RECURSIVE CountTokens(_, _)
CountTokens(text, S) ==
    IF text = <<>> THEN 0
    ELSE (IF text[1] \in S THEN 1 ELSE 0) + CountTokens(Tail(text), S)

Contains(text, S) == \E i \in 1..Len(text) : text[i] \in S

\* step_by_step.count("+---") + step_by_step.count("+===")
TableCount(step) == CountTokens(step, {"+---", "+==="})
\* len(re.findall(r'(?i)(table\s*\d+|...)', step_by_step))
TableMarkers(step) == CountTokens(step, {"Table 1"})
HasExplanations(step) == Contains(step, {"therefore"})

\* The template a question's keywords select, and the words of step_by_step
\* that hold it back. With table_count = 0 the basic template comes first.
TemplateFor(question, step) ==
    IF TableCount(step) = 0 /\ question \in {"grid", "table"}
    THEN IF step # <<>> /\ step[1] = "TABLE" THEN <<>> ELSE <<"<basic table template>">>
    ELSE IF question \in {"around", "table"}
    THEN IF Contains(step, {"position"}) THEN <<>> ELSE <<"<circular template>">>
    ELSE IF question = "venn"
    THEN IF Contains(step, {"set"}) THEN <<>> ELSE <<"<venn template>">>
    ELSE IF question = "rank"
    THEN IF Contains(step, {"rank", "Table 1", "TABLE"}) THEN <<>>
         ELSE <<"<ranking template>">>
    ELSE <<>>

\* generate_table_for_problem(question, step_by_step)
GenerateTableForProblem(question, step) ==
    IF TableMarkers(step) >= 2 /\ HasExplanations(step) THEN step
    ELSE IF TableCount(step) >= 4 THEN step
    ELSE IF Contains(step, {"|"}) /\ Contains(step, {"+---", "+==="}) /\ TableMarkers(step) >= 2
    THEN step
    ELSE LET noted == IF TableCount(step) = 0 /\ TableMarkers(step) = 0
                      THEN step \o <<"<note>">> ELSE step
             template == TemplateFor(question, step)
         IN IF template = <<>> THEN noted ELSE template \o step

TableInit ==
    /\ StoreUnused
    /\ EmbedUnused
    /\ ConcUnused
    /\ items = <<>>
    /\ modelCfg = [url |-> "set", key |-> "set"]
    /\ served = NoRequest
    /\ LoadUnused
    /\ retry = NoRetry
    /\ \E question \in Questions, step \in StepTexts :
          fnCall = [fn |-> "generate_table_for_problem", state |-> "called",
                    question |-> question, step_by_step |-> step, result |-> <<>>]

\* The call returns.
GenerateTable ==
    /\ fnCall.fn = "generate_table_for_problem"
    /\ fnCall.state = "called"
    /\ fnCall' = [fnCall EXCEPT
                    !.state = "returned",
                    !.result = GenerateTableForProblem(fnCall.question, fnCall.step_by_step)]
    /\ UNCHANGED <<storeVars, embedVars, concVars, serverVars, loadVars, retry>>

TableNext == GenerateTable

SpecTable == TableInit /\ [][TableNext]_vars

\* ------------------------------------------------- retrieval/prompt.py
MaxContexts == 3             \* build_user_prompt gets at most this many contexts

StepLimit == 1200            \* len(step_by_step) > 1200 is cut
TruncationNote == 26         \* len("...[truncated for brevity]")
EntryOverhead == 55          \* the labels of an entry with a one-letter id and empty fields
DefaultMaxContextLength == 5000

\* Lengths of a context's step_by_step solution: empty, at the limit, beyond it.
StepLengths == {0, StepLimit, 2 * StepLimit + 600}
\* max_context_length: nothing fits, one long entry fits, a short and a long
\* one fit, the default.
ContextLimits == {0, StepLimit + 100, StepLimit + 800, DefaultMaxContextLength}

\* The retrieved contexts, best first: the i-th has the i-th id; its other
\* text fields are empty.
ContextLists ==
    UNION { { [i \in 1..n |-> [id |-> PayloadIds[i], steps |-> f[i]]] : f \in [1..n -> StepLengths] } :
            n \in 0..MaxContexts }

\* len(ctx_entry), lines 51-62.
EntryLength(ctx) ==
    EntryOverhead
        + (IF ctx.steps > StepLimit THEN StepLimit + TruncationNote ELSE ctx.steps)

\* Mutant of ContextLoop: the limit also holds for the first entry.
RECURSIVE ContextLoopStrict(_, _, _, _, _)
ContextLoopStrict(contexts, i, total_length, ctx_txt, max_context_length) ==
    IF i > Len(contexts) THEN ctx_txt
    ELSE IF total_length + EntryLength(contexts[i]) > max_context_length
    THEN ctx_txt
    ELSE ContextLoopStrict(contexts, i + 1, total_length + EntryLength(contexts[i]),
                           Append(ctx_txt, contexts[i].id), max_context_length)

\* The loop of lines 47-69 from its i-th round on: ctx_txt as ids.
RECURSIVE ContextLoop(_, _, _, _, _)
ContextLoop(contexts, i, total_length, ctx_txt, max_context_length) ==
    IF i > Len(contexts) THEN ctx_txt
    ELSE IF total_length + EntryLength(contexts[i]) > max_context_length /\ ctx_txt # <<>>
    THEN ctx_txt
    ELSE ContextLoop(contexts, i + 1, total_length + EntryLength(contexts[i]),
                     Append(ctx_txt, contexts[i].id), max_context_length)

\* build_user_prompt(question, contexts, max_context_length): the examples
\* its prompt holds, in order.
BuildUserPrompt(contexts, max_context_length) ==
    ContextLoop(contexts, 1, 0, <<>>, max_context_length)

PromptInit ==
    /\ StoreUnused
    /\ EmbedUnused
    /\ ConcUnused
    /\ items = <<>>
    /\ modelCfg = [url |-> "set", key |-> "set"]
    /\ served = NoRequest
    /\ LoadUnused
    /\ retry = NoRetry
    /\ \E contexts \in ContextLists, limit \in ContextLimits :
          fnCall = [fn |-> "build_user_prompt", state |-> "called", contexts |-> contexts,
                    max_context_length |-> limit, result |-> <<>>]

\* The call returns.
BuildPrompt ==
    /\ fnCall.fn = "build_user_prompt"
    /\ fnCall.state = "called"
    /\ fnCall' = [fnCall EXCEPT
                    !.state = "returned",
                    !.result = BuildUserPrompt(fnCall.contexts, fnCall.max_context_length)]
    /\ UNCHANGED <<storeVars, embedVars, concVars, serverVars, loadVars, retry>>

PromptNext == BuildPrompt

SpecPrompt == PromptInit /\ [][PromptNext]_vars

\* --------------------------------- scripts/vision_extract.py: call_vision_api
MaxRetries == 10      \* max_retries
BaseWait == 30        \* base_wait
WaitCap == 300        \* the cap of the backoff
RetryAfterBuffer == 5 \* added to the retry-after header's seconds
RetryAfterSeconds == 10   \* the seconds a retry-after header names, when it names seconds

\* What one httpx.post of the loop meets: a timeout, another transport
\* error, 200 with or without a JSON body, 429 without a retry-after header,
\* with one in seconds, with one that is a date, or another error status.
VisionResponses ==
    { [kind |-> k, status |-> 0, body |-> "none", retry_after |-> "absent"] :
          k \in {"timeout", "connect_error"} }
        \cup { [kind |-> "http", status |-> 200, body |-> b, retry_after |-> "absent"] :
                  b \in {"json", "not_json"} }
        \cup { [kind |-> "http", status |-> 429, body |-> "error", retry_after |-> h] :
                  h \in {"absent", "seconds", "date"} }
        \cup { [kind |-> "http", status |-> 500, body |-> "error", retry_after |-> "absent"] }

NoVisionResponse == [kind |-> "none", status |-> 0, body |-> "none", retry_after |-> "absent"]

\* min((2 ** attempt) * base_wait, 300)
Backoff(attempt) ==
    IF (2 ^ attempt) * BaseWait < WaitCap THEN (2 ^ attempt) * BaseWait ELSE WaitCap

\* The last sleep before the next attempt (retry.sleeps counts them): after is the index of the attempt that
\* failed (0 for the first), so the retry that follows is number after + 1.
Wait(after, resp) ==
    [after |-> after,
     cause |-> IF resp.kind = "timeout" THEN "timeout" ELSE "status",
     status |-> resp.status,
     header |-> resp.retry_after,
     seconds |-> IF resp.kind = "http" /\ resp.retry_after = "seconds"
                 THEN RetryAfterSeconds + RetryAfterBuffer ELSE Backoff(after)]

\* Mutant of Retried: every error status is tried again.
RetriedAnyStatus(attempt, resp) ==
    /\ attempt < MaxRetries - 1
    /\ \/ resp.kind = "timeout"
       \/ resp.kind = "http" /\ resp.status >= 400 /\ resp.retry_after # "date"

\* Whether the round of the loop with this index sleeps and continues.
Retried(attempt, resp) ==
    /\ attempt < MaxRetries - 1
    /\ \/ resp.kind = "timeout"
       \/ resp.kind = "http" /\ resp.status = 429 /\ resp.retry_after # "date"

\* How a round that does not continue ends: the JSON of a 200 answer is
\* returned, everything else is raised.
RoundEnd(resp) ==
    IF resp.kind = "http" /\ resp.status = 200 /\ resp.body = "json" THEN "returned"
    ELSE "raised"

\* One round of "for attempt in range(max_retries)", lines 90-151.
VisionAttempt(resp) ==
    /\ retry.pc = "loop"
    /\ retry.attempt < MaxRetries
    /\ IF Retried(retry.attempt, resp)
       THEN retry' = [retry EXCEPT !.attempt = retry.attempt + 1,
                                   !.posts = retry.posts + 1,
                                   !.sleeps = retry.sleeps + 1,
                                   !.wait = Wait(retry.attempt, resp),
                                   !.last = resp]
       ELSE retry' = [retry EXCEPT !.pc = RoundEnd(resp),
                                   !.posts = retry.posts + 1,
                                   !.last = resp]

RetryInit ==
    /\ StoreUnused
    /\ EmbedUnused
    /\ ConcUnused
    /\ items = <<>>
    /\ modelCfg = [url |-> "set", key |-> "set"]
    /\ served = NoRequest
    /\ LoadUnused
    /\ fnCall = NoCall
    /\ retry = [pc |-> "loop", attempt |-> 0, posts |-> 0, sleeps |-> 0,
                wait |-> Wait(0, NoVisionResponse), last |-> NoVisionResponse]

DoVisionAttempt ==
    /\ \E resp \in VisionResponses : VisionAttempt(resp)
    /\ UNCHANGED <<storeVars, embedVars, concVars, serverVars, loadVars, fnCall>>

RetryNext == DoVisionAttempt

SpecRetry == RetryInit /\ [][RetryNext]_vars

\* The interpreter goes on with the loop as long as it can.
SpecRetryFair == SpecRetry /\ WF_vars(RetryNext)

\* ------------------------------------------- claims: the embedding client

\* An embed call was made and it posted a request.
EmbedPosted == embedCall # NoEmbedCall /\ embedSent # <<>>

\* The exception classes embed raises for another reason than a rejected
\* credential: for missing configuration, and for a failed or malformed response.
ConfigurationErrorClass ==
    EmbedResult([url |-> "unset", key |-> "unset"], [kind |-> "none"]).err.class
UpstreamErrorClasses == {"HTTPStatusError", "ValueError", "KeyError", "JSONDecodeError"}

\* The response has a non-success status or carries no vector field.
BadResponse(resp) ==
    /\ resp.kind = "http"
    /\ \/ resp.status # 200
       \/ resp.body.shape \notin {"data", "embeddings"}

\* C12: embed called with the endpoint address or the credential absent or
\* empty fails with the configuration error, and posts no request.
C12_MissingConfigFailsBeforeNetwork ==
    (embedCall # NoEmbedCall /\ (Falsy(embedCfg.url) \/ Falsy(embedCfg.key)))
        => /\ embedOut.err = Raised("RuntimeError", "config")
           /\ embedOut.value = <<>>
           /\ embedSent = <<>>

C12_Witness ==
    /\ embedCall # NoEmbedCall
    /\ embedCfg = [url |-> "set", key |-> "empty"]
    /\ embedOut.err.at = "config"
    /\ embedSent = <<>>

C14_AuthErrorDistinct ==
    (EmbedPosted /\ embedCall.resp.kind = "http" /\ embedCall.resp.status = 401)
        => /\ embedOut.err # NoError
           /\ embedOut.err.class # ConfigurationErrorClass
           /\ embedOut.err.class \notin UpstreamErrorClasses

\* C15: a successful embed(texts) returns exactly len(texts) vectors, the
\* i-th being the embedding of the i-th text; a response without the full
\* batch makes the call raise.
C15_FullBatchInOrder ==
    (embedCall # NoEmbedCall /\ embedOut.err = NoError)
        => /\ Len(embedOut.value) = Len(embedCall.texts)
           /\ \A i \in 1..Len(embedOut.value) : embedOut.value[i] = <<"emb", i>>

\* C16: an embed call posts at most one request, exactly one carrying all
\* the texts when the configuration is present, and a request that fails is
\* not repeated: the call raises.
C16_OneRequestNoRetry ==
    embedCall # NoEmbedCall
        => /\ Len(embedSent) <= 1
           /\ ~(Falsy(embedCfg.url) \/ Falsy(embedCfg.key))
                => (Len(embedSent) = 1 /\ embedSent[1].input = embedCall.texts)
           /\ (embedSent # <<>> /\ ~(embedCall.resp.kind = "http" /\ embedCall.resp.status = 200))
                => embedOut.err # NoError

C16_Witness ==
    /\ EmbedPosted
    /\ Len(embedCall.texts) = 2
    /\ embedCall.resp.kind = "http" /\ embedCall.resp.status = 500
    /\ Len(embedSent) = 1
    /\ embedOut.err.class = "HTTPStatusError"


\* ------------------------------------------- claims: threads in the store
\* The store of SpecConc is filled by well-formed adds only (as many payloads
\* as vectors), so that a failure can only come from the interleaving.

\* What search returns when it runs alone on the store as it is now.
RunAlone(t) ==
    SearchOutcome(dim, index, payloads, searchers[t].query, searchers[t].top_k)

C18_AddNotAtomic ==
    /\ adder.pc = "indexed"
          => /\ Len(index) = Len(payloads) + Len(adder.new_payloads)
             /\ Len(index) > Len(payloads)
             /\ \A query \in ConcQueries :
                   SearchOutcome(dim, index, payloads, query, Len(index)).err = "IndexError"
    /\ \A t \in Searchers : searchers[t].err = "IndexError" => searchers[t].overlap

\* An add stands between its two steps and a search has failed in that window.
C18_Witness ==
    /\ adder.pc = "indexed"
    /\ Len(index) > Len(payloads)
    /\ \E t \in Searchers : searchers[t].pc = "done" /\ searchers[t].err = "IndexError"


\* ----------------------------------------------------- claims: the server
\* C19: STORE and ITEMS are assigned once, at startup; no request handler
\* (/, /health, /solve) adds to them, removes from them or replaces them, so
\* after any sequence of requests they are what load_store returned.
C19_StoreAssignedOnce ==
    [][ /\ dim' = dim
        /\ index' = index
        /\ payloads' = payloads
        /\ items' = items ]_vars

\* A /solve request has searched the loaded store and has been answered.
C19_Witness ==
    /\ served.path = "solve"
    /\ served.status = 200
    /\ Len(served.ids) >= 1
    /\ Len(index) >= 1
    /\ items # <<>>

\* C20: whenever the LLM endpoint answers call_llm with a success status and
\* chat choices, call_llm returns a dict with the keys direct, step_by_step,
\* intuitive and shortcut, so that callers can call .get on the result.
C20_CallLlmReturnsMapping ==
    \A i \in 1..Len(served.llm) :
        LET c == served.llm[i]
        IN (/\ c.fn = "call_llm"
            /\ c.resp.kind = "http"
            /\ c.resp.status = 200
            /\ c.resp.body \in {"choices_json", "choices_text"})
              => /\ c.out.kind = "return"
                 /\ c.out.value.type = "dict"
                 /\ c.out.value.keys = FourKeys


\* C21: a /solve request that finds ITEMS empty or the store without vectors
\* is answered with status 400, and neither the embedding API nor the LLM API
\* is called for it.
C21_EmptinessBeforeNetwork ==
    (served.path = "solve" /\ (items = <<>> \/ Len(index) = 0))
        => /\ served.status = 400
           /\ served.calls = <<>>
           /\ served.llm = <<>>

\* /solve has been asked of a server that loaded nothing.
C21_Witness ==
    /\ served.path = "solve"
    /\ items = <<>>
    /\ Len(index) = 0
    /\ served.status = 400


\* How often fn stands in a call log.
RECURSIVE CountCalls(_, _)
CountCalls(calls, fn) ==
    IF calls = <<>> THEN 0
    ELSE (IF calls[1] = fn THEN 1 ELSE 0) + CountCalls(Tail(calls), fn)

\* C22: call_llm is invoked at most once per /solve request on every path,
\* the use_vision paths with a missing frames directory or a failed vision
\* call included.
C22_CallLlmAtMostOnce ==
    served.path = "solve" => CountCalls(served.calls, "call_llm") <= 1


\* ----------------------------------------------------- claims: load_store
\* C23: load_store returns the pickled store and items, without calling the
\* embedding API, exactly when the pickle exists, loads, and has ntotal > 0
\* and a non-empty item list; in every other case it does not raise because
\* of the pickle and goes on to the rebuild from the JSONL file.
C23_PickleOrFallback ==
    startup.phase # "before"
        => LET p == loadEnv.pickle
               usable == p.kind = "ok" /\ p.n >= 1 /\ p.m >= 1
           IN /\ usable
                   => /\ startup.phase = "loaded"
                      /\ startup.source = "pickle"
                      /\ CountCalls(startup.calls, "embed") = 0
                      /\ CountCalls(startup.calls, "fallback") = 0
                      /\ Len(index) = p.n
                      /\ Len(items) = p.m
              /\ ~usable
                   => /\ startup.source # "pickle"
                      /\ CountCalls(startup.calls, "fallback") = 1
                      /\ startup.err.at \notin {"pickle.load", "pickle"}

\* A pickle whose store holds vectors but whose item list is empty was passed
\* over, and the store was rebuilt from the JSONL file with one embed call.
C23_Witness ==
    /\ startup.phase = "loaded"
    /\ loadEnv.pickle.kind = "ok"
    /\ loadEnv.pickle.n >= 1
    /\ loadEnv.pickle.m = 0
    /\ startup.source = "jsonl"
    /\ CountCalls(startup.calls, "embed") = 1

\* C24: when load_store has to rebuild from the JSONL file and EMBED_API_KEY
\* or EMBED_API_URL is not set, it returns an empty store and an empty item
\* list without raising.
C24_NoEmbedConfigStartsEmpty ==
    (/\ startup.phase # "before"
     /\ CountCalls(startup.calls, "fallback") = 1
     /\ loadEnv.jsonl.kind = "ok"
     /\ loadEnv.jsonl.k >= 1
     /\ (Falsy(embedCfg.key) \/ Falsy(embedCfg.url)))
        => /\ startup.phase = "loaded"
           /\ index = <<>>
           /\ items = <<>>


\* ------------------------------------------- claims: the server's LLM calls
\* The vision call of the served request was made and raised.
VisionFailed ==
    /\ served.llm # <<>>
    /\ served.llm[1].fn = "call_llm_with_vision"
    /\ served.llm[1].out.kind = "raise"

\* The LLM endpoint answered the last call_llm of the served request with 200
\* and chat choices.
TextLlmAnswered ==
    LET last == served.llm[Len(served.llm)]
    IN /\ last.fn = "call_llm"
       /\ last.resp.kind = "http"
       /\ last.resp.status = 200
       /\ last.resp.body \in {"choices_json", "choices_text"}

\* C25: in /solve with use_vision, when the frames directory is missing or
\* the vision call raises, the handler goes on to the text-only call_llm; a
\* vision failure alone gives no error response: when the text-only call is
\* answered, the request is answered with 200.
C25_VisionFailureFallsBack ==
    (/\ served.path = "solve"
     /\ served.req.use_vision
     /\ served.llm # <<>>
     /\ (VisionFailed \/ served.llm[1].fn = "call_llm"))
        => /\ CountCalls(served.calls, "call_llm") >= 1
           /\ (VisionFailed /\ TextLlmAnswered) => served.status = 200


\* C26: every failure inside call_llm comes out as an HTTPException and as
\* nothing else: with LLM_API_URL or LLM_API_KEY missing it has status 500 and
\* no request was posted; after a connection error or a timeout it has status
\* 500; after an error status of the endpoint it has that status.
C26_CallLlmFailuresAreHTTPExceptions ==
    \A i \in 1..Len(served.llm) :
        LET c == served.llm[i]
        IN c.fn = "call_llm"
             => /\ c.out.kind = "raise" => c.out.class = "HTTPException"
                /\ (modelCfg.url = "unset" \/ modelCfg.key = "unset")
                      => /\ c.out = RaisedHTTP(500)
                         /\ c.resp.kind = "none"
                /\ c.resp.kind \in {"connect_error", "timeout"} => c.out = RaisedHTTP(500)
                /\ (c.resp.kind = "http" /\ c.resp.status >= 400)
                      => c.out = RaisedHTTP(c.resp.status)

\* call_llm has met an error status of the endpoint, and /solve passed it on.
C26_Witness ==
    /\ served.path = "solve"
    /\ served.llm # <<>>
    /\ served.llm[Len(served.llm)].fn = "call_llm"
    /\ served.llm[Len(served.llm)].resp.kind = "http"
    /\ served.llm[Len(served.llm)].resp.status = 429
    /\ served.status = 429


\* ------------------------------------------------ claims: helper functions
\* C27: generate_table_for_problem leaves a step_by_step text that has at
\* least one table separator or table marker as it is, for every question;
\* templates and notes are added only when tables are missing altogether.
C27_TablesLeftAlone ==
    (/\ fnCall.fn = "generate_table_for_problem"
     /\ fnCall.state = "returned"
     /\ (TableCount(fnCall.step_by_step) >= 1 \/ TableMarkers(fnCall.step_by_step) >= 1))
        => fnCall.result = fnCall.step_by_step


\* The summed entry lengths of the first n contexts.
RECURSIVE CumulativeLength(_, _)
CumulativeLength(contexts, n) ==
    IF n = 0 THEN 0 ELSE CumulativeLength(contexts, n - 1) + (EntryLength(contexts[n]))

\* C28: the prompt holds a prefix of the contexts in rank order; the first
\* context is in it whatever its length; a later one is in it only if all
\* before it are and the summed length of the entries up to and including it
\* is at most max_context_length.
C28_ContextPrefixWithinLimit ==
    (fnCall.fn = "build_user_prompt" /\ fnCall.state = "returned")
        => LET contexts == fnCall.contexts
               n == Len(fnCall.result)
           IN /\ n <= Len(contexts)
              /\ \A i \in 1..n : fnCall.result[i] = contexts[i].id
              /\ contexts # <<>> => n >= 1
              /\ \A i \in 2..n :
                    CumulativeLength(contexts, i) <= fnCall.max_context_length

\* A first entry longer than the limit was kept and the next one left out.
C28_Witness ==
    /\ fnCall.fn = "build_user_prompt"
    /\ fnCall.state = "returned"
    /\ Len(fnCall.contexts) >= 2
    /\ EntryLength(fnCall.contexts[1]) > fnCall.max_context_length
    /\ Len(fnCall.result) = 1


\* --------------------------------------------------- claims: the retry loop
\* What holds of the loop at every moment, but for the length of the waits.
RetryLoopShape ==
    /\ retry.posts <= MaxRetries
    /\ retry.pc = "loop" => (retry.posts = retry.sleeps /\ retry.attempt < MaxRetries)
    /\ retry.pc # "loop" => retry.posts = retry.sleeps + 1
    /\ retry.pc = "returned" => (retry.last.status = 200 /\ retry.last.body = "json")
    /\ retry.sleeps >= 1
          => /\ retry.wait.after = retry.sleeps - 1
             /\ \/ retry.wait.cause = "timeout"
                \/ retry.wait.cause = "status" /\ retry.wait.status = 429
    /\ (retry.last.kind = "http" /\ retry.last.status \notin {200, 429})
          => retry.pc = "raised"
    /\ retry.last.kind = "connect_error" => retry.pc = "raised"

\* The least of two numbers.
Least(a, b) == IF a <= b THEN a ELSE b

\* C29 as stated: the loop ends after at most max_retries HTTP attempts, with
\* the first successful response returned or an exception raised; only 429
\* answers and timeouts are retried, any other error status is raised on the
\* spot; without a retry-after header the wait before retry number n (the
\* first retry being number 1) is min(2^n * 30, 300) seconds.
C29_RetryLoopAsStated ==
    /\ [](/\ RetryLoopShape
          /\ (retry.sleeps >= 1 /\ retry.wait.header = "absent")
                => retry.wait.seconds = Least((2 ^ retry.sleeps) * 30, 300))
    /\ <>(retry.pc # "loop")

\* C29, amended: as above, but the wait before retry number n is
\* min(2^(n-1) * 30, 300) seconds: 30 before the first retry.
C29_RetryLoopBounded ==
    /\ [](/\ RetryLoopShape
          /\ (retry.sleeps >= 1 /\ retry.wait.header = "absent")
                => retry.wait.seconds = Least((2 ^ (retry.sleeps - 1)) * 30, 300))
    /\ <>(retry.pc # "loop")

\* The tenth attempt has been made, after nine retries of which the last came
\* after the capped wait, and the loop is over.
C29_Witness ==
    /\ retry.pc # "loop"
    /\ retry.posts = 10
    /\ retry.sleeps = 9
    /\ retry.wait.header = "absent"
    /\ retry.wait.seconds = 300

====
